---- MODULE Spec2Model ----
(***************************************************************************)
(* A model of the CHIP-8 emulator: the instruction decoder (opcodes.rs,    *)
(* cpu.rs), the register file and its two timer threads (registers.rs),    *)
(* the execution engine (cpu.rs) and the display/input surface it talks to *)
(* (display.rs).                                                           *)
(***************************************************************************)
EXTENDS Integers, Sequences, FiniteSets, TLC

VARIABLES
    PC,             \* Registers.PC (usize)
    SP,             \* Registers.SP (u8)
    I,              \* Registers.I (u16)
    Vx,             \* Registers.Vx: [u8; 16], indexed 0..15
    DT, ST,         \* Registers.DT / Registers.ST (AtomicU8)
    stack,          \* CHIP8.stack: Vec<u16>
    ram,            \* CHIP8.ram: [u8; 0xFFF], as the bytes that differ from the image new() builds
    buffer,         \* Display.buffer: the set of indices whose pixel is u32::MAX
    status,         \* "running", "halted" (run() returned) or the panic that ended the engine
    epc,            \* where the engine thread is: "fetch", "publish", "keywait"
    last,           \* the cycle in progress or last completed: opcode, instruction, state before it
    tpc,            \* per timer thread: "sleep" or "dec" (loaded a nonzero value, about to fetch_sub)
    timer_log,      \* per timer: the last value the engine wrote, the ticks since, the value before the last decrement
    dpc,            \* the display thread: "loop", "send_end", "flush", "done"
    buf_chan,       \* frames in flight on the sync_channel(1) buf_tx -> buf_rx
    key_chan,       \* key vectors in flight on the channel key_tx -> key_rx
    win_keys,       \* the display thread's local `keys`
    keys_pressed,   \* Display.keys_pressed: Arc<RwLock<Vec<Key>>>
    shown           \* the frame the window last drew

vars == <<PC, SP, I, Vx, DT, ST, stack, ram, buffer, status, epc, last, tpc,
          timer_log, dpc, buf_chan, key_chan, win_keys, keys_pressed, shown>>

----------------------------------------------------------------------------
(* Program constants *)

RAM_LEN == 4095
PROGRAM_START == 512
SPRITE_BYTE_LENGTH == 5
WIDTH == 64
HEIGHT == 32
U8 == 256
U16 == 65536

SPRITES ==
    << 240, 144, 144, 144, 240,
        32,  96,  32,  32, 112,
       240,  16, 240, 128, 240,
       240,  16, 240,  16, 240,
       144, 144, 240,  16,  16,
       240, 128, 240,  16, 240,
       240, 128, 240, 144, 240,
       240,  16,  32,  64,  64,
       240, 144, 240, 144, 240,
       240, 144, 240,  16, 240,
       240, 144, 240, 144, 144,
       224, 144, 224, 144, 224,
       240, 128, 128, 128, 240,
       224, 144, 144, 144, 224,
       240, 128, 240, 128, 240,
       240, 128, 240, 128, 128 >>

----------------------------------------------------------------------------
(* Bit arithmetic on machine words *)

RECURSIVE bit_and(_, _)
bit_and(a, b) ==
    IF a = 0 \/ b = 0 THEN 0
    ELSE (a % 2) * (b % 2) + 2 * bit_and(a \div 2, b \div 2)

RECURSIVE bit_or(_, _)
bit_or(a, b) ==
    IF a = 0 THEN b
    ELSE IF b = 0 THEN a
    ELSE (IF a % 2 = 1 \/ b % 2 = 1 THEN 1 ELSE 0) + 2 * bit_or(a \div 2, b \div 2)

RECURSIVE bit_xor(_, _)
bit_xor(a, b) ==
    IF a = 0 THEN b
    ELSE IF b = 0 THEN a
    ELSE ((a + b) % 2) + 2 * bit_xor(a \div 2, b \div 2)

RECURSIVE pow2(_)
pow2(n) == IF n = 0 THEN 1 ELSE 2 * pow2(n - 1)

shr(a, n) == a \div pow2(n)

\* u8::trailing_ones: the number of consecutive one bits from bit 0 up
RECURSIVE trailing_ones(_)
trailing_ones(v) == IF v % 2 = 1 THEN 1 + trailing_ones(v \div 2) ELSE 0

\* u8::leading_ones: the number of consecutive one bits from bit 7 down
RECURSIVE leading_ones(_)
leading_ones(v) == IF v >= 128 THEN 1 + leading_ones((v * 2) % U8) ELSE 0

\* a carry test that is off by one: a sum of exactly 256 is not flagged
overflowing_add_late_carry(a, b) == <<(a + b) % U8, a + b > U8>>

\* a borrow test that is off by one: equal operands count as a borrow
overflowing_sub_early_borrow(a, b) == <<(a - b) % U8, a <= b>>

\* u8::overflowing_add / u8::overflowing_sub: <<wrapped result, overflowed>>
overflowing_add(a, b) == <<(a + b) % U8, a + b >= U8>>

overflowing_sub(a, b) == <<(a - b) % U8, a < b>>

bool_as_u8(b) == IF b THEN 1 ELSE 0

----------------------------------------------------------------------------
(* opcodes.rs: field extractors *)

\* a second-register field that is masked but not shifted down
get_vy_unshifted(bytes) == bit_and(bytes, 240) % U8

get_first(bytes) == shr(bytes, 12) % U8
get_addr(bytes) == bit_and(bytes, 4095)
get_vx(bytes) == shr(bit_and(bytes, 3840), 8) % U8
get_vy(bytes) == shr(bit_and(bytes, 240), 4) % U8
get_nibble(bytes) == bit_and(bytes, 15) % U8
get_byte(bytes) == bit_and(bytes, 255) % U8

\* u16::to_be_bytes()[1]: the low byte
low_byte(bytes) == bytes % U8

(* opcodes.rs: enum Instruction.  Every variant is a record of one shape;   *)
(* the fields a variant does not carry are 0, and `other` tells which side  *)
(* of the Either the second operand is.                                     *)
Instr(op, vx, vy, byte, addr, nibble, other) ==
    [op |-> op, vx |-> vx, vy |-> vy, byte |-> byte, addr |-> addr,
     nibble |-> nibble, other |-> other]

InstrNone(op) == Instr(op, 0, 0, 0, 0, 0, "none")
InstrAddr(op, addr) == Instr(op, 0, 0, 0, addr, 0, "none")
InstrX(op, vx) == Instr(op, vx, 0, 0, 0, 0, "none")
InstrXY(op, vx, vy) == Instr(op, vx, vy, 0, 0, 0, "none")
InstrLeft(op, vx, vy) == Instr(op, vx, vy, 0, 0, 0, "Left")
InstrRight(op, vx, byte) == Instr(op, vx, 0, byte, 0, 0, "Right")
InstrXByte(op, vx, byte) == Instr(op, vx, 0, byte, 0, 0, "none")
InstrXYN(op, vx, vy, nibble) == Instr(op, vx, vy, 0, 0, nibble, "none")

\* panic!("Unrecognized OP Code ...")
Unrecognized == InstrNone("Unrecognized")

----------------------------------------------------------------------------
(* cpu.rs: CHIP8::decode_instruction *)

decode_8(bytes) ==
    LET n == get_nibble(bytes) IN
    CASE n = 0 -> InstrLeft("LD", get_vx(bytes), get_vy(bytes))
      [] n = 1 -> InstrXY("OR", get_vx(bytes), get_vy(bytes))
      [] n = 2 -> InstrXY("AND", get_vx(bytes), get_vy(bytes))
      [] n = 3 -> InstrXY("XOR", get_vx(bytes), get_vy(bytes))
      [] n = 4 -> InstrLeft("ADD", get_vx(bytes), get_vy(bytes))
      [] n = 5 -> InstrXY("SUB", get_vx(bytes), get_vy(bytes))
      [] n = 6 -> InstrX("SHR", get_vx(bytes))
      [] n = 7 -> InstrXY("SUBN", get_vx(bytes), get_vy(bytes))
      [] n = 14 -> InstrX("SHL", get_vx(bytes))
      [] OTHER -> Unrecognized

decode_E(bytes) ==
    LET b == low_byte(bytes) IN
    CASE b = 158 -> InstrX("SKP", get_vx(bytes))
      [] b = 161 -> InstrX("SKNP", get_vx(bytes))
      [] OTHER -> Unrecognized

\* the 0xF family without its 0x1E arm
decode_F_without_ADD_I(bytes) ==
    LET b == low_byte(bytes) IN
    CASE b = 7 -> InstrX("LD_Vx_DT", get_vx(bytes))
      [] b = 10 -> InstrX("LD_Vx_K", get_vx(bytes))
      [] b = 21 -> InstrX("LD_DT_Vx", get_vx(bytes))
      [] b = 24 -> InstrX("LD_ST_Vx", get_vx(bytes))
      [] b = 41 -> InstrX("LD_F", get_vx(bytes))
      [] b = 51 -> InstrX("LD_B", get_vx(bytes))
      [] b = 85 -> InstrX("LD_I_Vx", get_vx(bytes))
      [] b = 101 -> InstrX("LD_Vx_I", get_vx(bytes))
      [] OTHER -> Unrecognized

decode_F(bytes) ==
    LET b == low_byte(bytes) IN
    CASE b = 7 -> InstrX("LD_Vx_DT", get_vx(bytes))
      [] b = 10 -> InstrX("LD_Vx_K", get_vx(bytes))
      [] b = 21 -> InstrX("LD_DT_Vx", get_vx(bytes))
      [] b = 24 -> InstrX("LD_ST_Vx", get_vx(bytes))
      [] b = 30 -> InstrX("ADD_I", get_vx(bytes))
      [] b = 41 -> InstrX("LD_F", get_vx(bytes))
      [] b = 51 -> InstrX("LD_B", get_vx(bytes))
      [] b = 85 -> InstrX("LD_I_Vx", get_vx(bytes))
      [] b = 101 -> InstrX("LD_Vx_I", get_vx(bytes))
      [] OTHER -> Unrecognized

decode_instruction(bytes) ==
    LET first == get_first(bytes) IN
    CASE first = 0 ->
            IF bytes = 224 THEN InstrNone("CLS")
            ELSE IF bytes = 238 THEN InstrNone("RET")
            ELSE InstrAddr("SYS", get_addr(bytes))
      [] first = 1 -> InstrAddr("JP", get_addr(bytes))
      [] first = 2 -> InstrAddr("CALL", get_addr(bytes))
      [] first = 3 -> InstrRight("SE", get_vx(bytes), get_byte(bytes))
      [] first = 4 -> InstrRight("SNE", get_vx(bytes), get_byte(bytes))
      [] first = 5 -> InstrLeft("SE", get_vx(bytes), get_vy(bytes))
      [] first = 6 -> InstrRight("LD", get_vx(bytes), get_byte(bytes))
      [] first = 7 -> InstrRight("ADD", get_vx(bytes), get_byte(bytes))
      [] first = 8 -> decode_8(bytes)
      [] first = 9 -> InstrLeft("SNE", get_vx(bytes), get_vy(bytes))
      [] first = 10 -> InstrAddr("LD_I", get_addr(bytes))
      [] first = 11 -> InstrAddr("JP_V0", get_addr(bytes))
      [] first = 12 -> InstrXByte("RND", get_vx(bytes), get_byte(bytes))
      [] first = 13 -> InstrXYN("DRW", get_vx(bytes), get_vy(bytes), get_nibble(bytes))
      [] first = 14 -> decode_E(bytes)
      [] first = 15 -> decode_F(bytes)

----------------------------------------------------------------------------
(* opcodes.rs: the key mapping.  A minifb Key is modelled by its name; an   *)
(* Option is None or Some(v).                                               *)

None == <<>>
Some(v) == <<v>>
unwrap(o) == o[1]

map_key_to_u8(key) ==
    CASE key = "Key1" -> Some(1)
      [] key = "Key2" -> Some(2)
      [] key = "Key3" -> Some(3)
      [] key = "Key4" -> Some(12)
      [] key = "Q" -> Some(4)
      [] key = "W" -> Some(5)
      [] key = "E" -> Some(6)
      [] key = "R" -> Some(13)
      [] key = "A" -> Some(7)
      [] key = "S" -> Some(8)
      [] key = "D" -> Some(9)
      [] key = "F" -> Some(14)
      [] key = "Z" -> Some(10)
      [] key = "X" -> Some(0)
      [] key = "C" -> Some(11)
      [] key = "V" -> Some(15)
      [] OTHER -> None

map_u8_to_key(val) ==
    CASE val = 1 -> Some("Key1")
      [] val = 2 -> Some("Key2")
      [] val = 3 -> Some("Key3")
      [] val = 12 -> Some("Key4")
      [] val = 4 -> Some("Q")
      [] val = 5 -> Some("W")
      [] val = 6 -> Some("E")
      [] val = 13 -> Some("R")
      [] val = 7 -> Some("A")
      [] val = 8 -> Some("S")
      [] val = 9 -> Some("D")
      [] val = 14 -> Some("F")
      [] val = 10 -> Some("Z")
      [] val = 0 -> Some("X")
      [] val = 11 -> Some("C")
      [] val = 15 -> Some("V")
      [] OTHER -> None

\* to_bcd without the reduction modulo 100 of the tens
to_bcd_tens_unreduced(byte) ==
    LET ones == byte % 10
        tens == byte \div 10
        hundreds == (byte - ones - tens) \div 100
    IN <<hundreds, tens % U8, ones>>

(* opcodes.rs: to_bcd *)
to_bcd(byte) ==
    LET ones == byte % 10
        tens == (byte % 100) \div 10
        hundreds == (byte - ones - tens) \div 100
    IN <<hundreds, tens, ones>>

----------------------------------------------------------------------------
(* display.rs: the pixel buffer.  A pixel is 0 or u32::MAX; `buffer` is the *)
(* set of indices that hold u32::MAX.                                       *)

\* one wrap of the whole index instead of one per axis
to_index_wrapped_as_one(x, y) == (WIDTH * y + x) % (WIDTH * HEIGHT)

to_index(x, y) ==
    LET yy == y % HEIGHT
        xx == x % WIDTH
    IN WIDTH * yy + xx

(* Display::set_pixels.  The loops visit every <<j, i>> (row j of `bytes`,   *)
(* bit i from the most significant) whose bit is set and toggle the pixel   *)
(* at to_index(x + i, y + j); a toggle of a lit pixel sets `collision`.     *)
(* Toggles of different pixels do not interact, so the loops are stated per *)
(* pixel: a pixel toggled m times ends lit iff it was lit and m is even or  *)
(* it was unlit and m is odd, and one of its toggles found it lit iff it    *)
(* was lit (its first toggle) or m >= 2 (its second).                       *)
sprite_bits(bytes) ==
    {h \in (0 .. Len(bytes) - 1) \X (0 .. 7) :
        LET filter == shr(128, h[2]) IN bit_and(bytes[h[1] + 1], filter) = filter}

toggles(x, y, bits, index) ==
    Cardinality({h \in bits : to_index(x + h[2], y + h[1]) = index})

\* the one element of a one-element set; a value bound as the element of
\* {e} is evaluated once
Only(S) == CHOOSE v \in S : TRUE

\* a blit that lights pixels and never puts one out
blit_without_erase(slice, touched, hit) ==
    [buffer |-> slice \cup touched,
     collision |-> \E index \in touched : index \in slice \/ hit[index] >= 2]

blit(slice, touched, hit) ==
    [buffer |-> {index \in slice \cup touched :
                    (index \in slice) # (index \in touched /\ hit[index] % 2 = 1)},
     collision |-> \E index \in touched : index \in slice \/ hit[index] >= 2]

set_pixels(slice, x, y, bytes) ==
    Only({ Only({ blit(slice, DOMAIN hit, hit) :
                    hit \in {[index \in {to_index(x + h[2], y + h[1]) : h \in bits} |->
                                toggles(x, y, bits, index)]} }) :
           bits \in {sprite_bits(bytes)} })

\* Display::clear
clear == {}

----------------------------------------------------------------------------
(* cpu.rs: CHIP8.ram.  The array has RAM_LEN bytes, indexed 0 .. RAM_LEN-1. *)
(* The variable holds it as a function from the addresses whose byte        *)
(* differs from the image CHIP8::new builds (the sprites at 0, zeros after) *)
(* to that byte, so that equal arrays are equal values.                     *)

\* ram as CHIP8::new leaves it: ram[..80].clone_from_slice(&SPRITES)
new_ram(a) == IF a < Len(SPRITES) THEN SPRITES[a + 1] ELSE 0

\* self.ram[a], for a in bounds
ram_read(mem, a) == IF a \in DOMAIN mem THEN mem[a] ELSE new_ram(a)

\* self.ram[a] = val, for a in bounds
ram_write(mem, a, val) ==
    IF val = new_ram(a)
    THEN [b \in (DOMAIN mem) \ {a} |-> mem[b]]
    ELSE [b \in (DOMAIN mem) \cup {a} |-> IF b = a THEN val ELSE mem[b]]

----------------------------------------------------------------------------
(* cpu.rs: CHIP8::execute_instruction.                                      *)
(* `self` is the engine's view of the machine as a record; the operators    *)
(* return the record after the instruction.  self.panic names the panic     *)
(* that ended the instruction ("none": it did not panic), with the writes   *)
(* made before it kept.  self.next is "done", or the blocking call the      *)
(* instruction is in: "publish" (update_buffer) or "keywait" (the LD_Vx_K   *)
(* loop).  `ovf` is what an integer overflow does in this build: "panic"    *)
(* (overflow checks on) or "wrap".                                          *)

Panic(self, what) == [self EXCEPT !.panic = what]

get_vx_val(self, reg) == self.Vx[reg]

set_vx_val(self, reg, val) == [self EXCEPT !.Vx[reg] = val]

\* the Either<VxyRegister, u8> operand of SE, SNE, ADD, LD
either_val(self, instr) ==
    IF instr.other = "Left" THEN get_vx_val(self, instr.vy) ELSE instr.byte

get_sprite_addr(hex) ==
    IF hex > 15 THEN None ELSE Some(hex * SPRITE_BYTE_LENGTH)

Front(s) == SubSeq(s, 1, Len(s) - 1)

\* RET that takes address 0 from an empty stack instead of failing
exec_RET_unchecked(self) ==
    [self EXCEPT !.PC = IF self.stack = <<>> THEN 0 ELSE self.stack[Len(self.stack)],
                 !.stack = IF self.stack = <<>> THEN <<>> ELSE Front(self.stack),
                 !.SP = (self.SP - 1) % U8]

exec_RET(self) ==
    IF self.stack = <<>>
    THEN Panic(self, "panic_stack_empty")
    ELSE [self EXCEPT !.PC = self.stack[Len(self.stack)],
                      !.stack = Front(self.stack),
                      !.SP = (self.SP - 1) % U8]

\* CALL that saves the address after itself instead of its own
exec_CALL_saving_next(self, addr, ovf) ==
    IF self.SP + 1 >= U8 /\ ovf = "panic"
    THEN Panic(self, "panic_overflow")
    ELSE [self EXCEPT !.SP = (self.SP + 1) % U8,
                      !.stack = Append(self.stack, (self.PC + 2) % U16),
                      !.PC = addr]

exec_CALL(self, addr, ovf) ==
    IF self.SP + 1 >= U8 /\ ovf = "panic"
    THEN Panic(self, "panic_overflow")
    ELSE [self EXCEPT !.SP = (self.SP + 1) % U8,
                      !.stack = Append(self.stack, self.PC % U16),
                      !.PC = addr]

exec_SE(self, instr) ==
    IF get_vx_val(self, instr.vx) = either_val(self, instr)
    THEN [self EXCEPT !.PC = self.PC + 2]
    ELSE self

\* SNE with the comparison of SE
exec_SNE_on_equal(self, instr) ==
    IF get_vx_val(self, instr.vx) = either_val(self, instr)
    THEN [self EXCEPT !.PC = self.PC + 2]
    ELSE self

exec_SNE(self, instr) ==
    IF get_vx_val(self, instr.vx) # either_val(self, instr)
    THEN [self EXCEPT !.PC = self.PC + 2]
    ELSE self

exec_ADD(self, instr) ==
    LET val1 == get_vx_val(self, instr.vx)
        val2 == either_val(self, instr)
        result == overflowing_add(val1, val2)
    IN set_vx_val(set_vx_val(self, instr.vx, result[1]), 15, bool_as_u8(result[2]))

exec_ADD_I(self, vx, ovf) ==
    LET sum == self.I + get_vx_val(self, vx) IN
    IF sum >= U16 /\ ovf = "panic"
    THEN Panic(self, "panic_overflow")
    ELSE [self EXCEPT !.I = sum % U16]

exec_SUB(self, vx, vy) ==
    LET val1 == get_vx_val(self, vx)
        val2 == get_vx_val(self, vy)
        result == overflowing_sub(val1, val2)
    IN set_vx_val(set_vx_val(self, vx, result[1]), 15, bool_as_u8(~result[2]))

\* SUBN that leaves the difference VY - VX in register X
exec_SUBN_into_X(self, vx, vy) ==
    LET val1 == get_vx_val(self, vx)
        val2 == get_vx_val(self, vy)
        result == overflowing_sub(val2, val1)
    IN set_vx_val(set_vx_val(self, vx, result[1]), 15, bool_as_u8(~result[2]))

\* self.execute_instruction(Instruction::SUB(vy, vx))
exec_SUBN(self, vx, vy) == exec_SUB(self, vy, vx)

\* SHR taking its flag from the register after the shift
exec_SHR_flag_after(self, vx) ==
    LET val1 == get_vx_val(self, vx) IN
    set_vx_val(set_vx_val(self, 15, bool_as_u8(trailing_ones(shr(val1, 1)) > 0)),
               vx, shr(val1, 1))

exec_SHR(self, vx) ==
    LET val1 == get_vx_val(self, vx) IN
    set_vx_val(set_vx_val(self, 15, bool_as_u8(trailing_ones(val1) > 0)),
               vx, shr(val1, 1))

exec_SHL(self, vx) ==
    LET val1 == get_vx_val(self, vx) IN
    set_vx_val(set_vx_val(self, 15, bool_as_u8(leading_ones(val1) > 0)),
               vx, (val1 * 2) % U8)

\* &self.ram[start .. end], then set_pixels; update_buffer and the write of
\* VF follow in Publish
exec_DRW(self, instr, ovf) ==
    LET start == self.I
        sum == self.I + instr.nibble
        end == sum % U16
    IN IF sum >= U16 /\ ovf = "panic" THEN Panic(self, "panic_overflow")
       ELSE IF start > end \/ end > RAM_LEN THEN Panic(self, "panic_index")
       ELSE LET bytes == [k \in 1 .. (end - start) |-> ram_read(self.ram, start + k - 1)]
                drawn == set_pixels(self.buffer, get_vx_val(self, instr.vx),
                                    get_vx_val(self, instr.vy), bytes)
            IN [self EXCEPT !.buffer = drawn.buffer,
                            !.collision = drawn.collision,
                            !.next = "publish"]

\* Display::is_key_down: keys_pressed.contains(&key)
is_key_down(self, key) ==
    \E k \in 1 .. Len(self.keys_pressed) : self.keys_pressed[k] = key

\* SKP that takes a register value without a key for "not down"
exec_SKP_lenient(self, vx) ==
    LET val == get_vx_val(self, vx)
        key == map_u8_to_key(val)
    IN IF key # None /\ is_key_down(self, unwrap(key))
       THEN [self EXCEPT !.PC = self.PC + 2]
       ELSE self

exec_SKP(self, vx) ==
    LET val == get_vx_val(self, vx)
        key == map_u8_to_key(val)
    IN IF key = None THEN Panic(self, "panic_key")
       ELSE IF is_key_down(self, unwrap(key))
            THEN [self EXCEPT !.PC = self.PC + 2]
            ELSE self

exec_SKNP(self, vx) ==
    LET val == get_vx_val(self, vx)
        key == map_u8_to_key(val)
    IN IF key = None THEN Panic(self, "panic_key")
       ELSE IF ~is_key_down(self, unwrap(key))
            THEN [self EXCEPT !.PC = self.PC + 2]
            ELSE self

exec_LD_F(self, vx) ==
    LET val == get_vx_val(self, vx)
        addr == get_sprite_addr(val)
    IN IF addr = None THEN Panic(self, "panic_sprite")
       ELSE [self EXCEPT !.I = unwrap(addr)]

\* self.ram[index] = val, which panics when index is out of bounds
ram_store(self, index, val) ==
    IF self.panic # "none" THEN self
    ELSE IF index >= RAM_LEN THEN Panic(self, "panic_index")
    ELSE [self EXCEPT !.ram = ram_write(self.ram, index, val)]

exec_LD_B(self, vx) ==
    LET val == get_vx_val(self, vx)
        bcd == to_bcd(val)
        s1 == ram_store(self, self.I, bcd[1])
        s2 == ram_store(s1, self.I + 1, bcd[2])
    IN ram_store(s2, self.I + 2, bcd[3])

\* for i in 0..byte+1 { self.ram[I + i] = Vx[i] }
RECURSIVE store_regs_from(_, _, _)
store_regs_from(self, byte, i) ==
    IF i >= byte + 1 \/ self.panic # "none" THEN self
    ELSE store_regs_from(ram_store(self, self.I + i, get_vx_val(self, i)), byte, i + 1)

\* a store of registers 0..X that leaves register X out
exec_LD_I_Vx_exclusive(self, byte) ==
    IF byte = 0 THEN self ELSE store_regs_from(self, byte - 1, 0)

exec_LD_I_Vx(self, byte) == store_regs_from(self, byte, 0)

\* for i in 0..byte+1 { Vx[i] = self.ram[I + i] }
RECURSIVE load_regs_from(_, _, _)
load_regs_from(self, byte, i) ==
    IF i >= byte + 1 \/ self.panic # "none" THEN self
    ELSE IF self.I + i >= RAM_LEN THEN Panic(self, "panic_index")
    ELSE load_regs_from(set_vx_val(self, i, ram_read(self.ram, self.I + i)), byte, i + 1)

exec_LD_Vx_I(self, byte) == load_regs_from(self, byte, 0)

execute_instruction(self, instr, rand, ovf) ==
    LET op == instr.op IN
    CASE op = "SYS" -> self
      [] op = "CLS" -> [self EXCEPT !.buffer = clear, !.next = "publish"]
      [] op = "RET" -> exec_RET(self)
      [] op = "JP" -> [self EXCEPT !.PC = instr.addr]
      [] op = "JP_V0" -> [self EXCEPT !.PC = (instr.addr + self.Vx[0]) % U16]
      [] op = "CALL" -> exec_CALL(self, instr.addr, ovf)
      [] op = "SE" -> exec_SE(self, instr)
      [] op = "SNE" -> exec_SNE(self, instr)
      [] op = "ADD" -> exec_ADD(self, instr)
      [] op = "ADD_I" -> exec_ADD_I(self, instr.vx, ovf)
      [] op = "SUB" -> exec_SUB(self, instr.vx, instr.vy)
      [] op = "SUBN" -> exec_SUBN(self, instr.vx, instr.vy)
      [] op = "OR" -> set_vx_val(self, instr.vx,
                        bit_or(get_vx_val(self, instr.vx), get_vx_val(self, instr.vy)))
      [] op = "AND" -> set_vx_val(self, instr.vx,
                        bit_and(get_vx_val(self, instr.vx), get_vx_val(self, instr.vy)))
      [] op = "XOR" -> set_vx_val(self, instr.vx,
                        bit_xor(get_vx_val(self, instr.vx), get_vx_val(self, instr.vy)))
      [] op = "SHR" -> exec_SHR(self, instr.vx)
      [] op = "SHL" -> exec_SHL(self, instr.vx)
      [] op = "RND" -> set_vx_val(self, instr.vx, bit_and(rand, instr.byte))
      [] op = "DRW" -> exec_DRW(self, instr, ovf)
      [] op = "SKP" -> exec_SKP(self, instr.vx)
      [] op = "SKNP" -> exec_SKNP(self, instr.vx)
      [] op = "LD" -> set_vx_val(self, instr.vx, either_val(self, instr))
      [] op = "LD_I" -> [self EXCEPT !.I = instr.addr]
      [] op = "LD_Vx_DT" -> set_vx_val(self, instr.vx, self.DT)
      [] op = "LD_Vx_K" -> [self EXCEPT !.next = "keywait"]
      [] op = "LD_DT_Vx" -> [self EXCEPT !.DT = get_vx_val(self, instr.vx)]
      [] op = "LD_ST_Vx" -> [self EXCEPT !.ST = get_vx_val(self, instr.vx)]
      [] op = "LD_F" -> exec_LD_F(self, instr.vx)
      [] op = "LD_B" -> exec_LD_B(self, instr.vx)
      [] op = "LD_I_Vx" -> exec_LD_I_Vx(self, instr.vx)
      [] op = "LD_Vx_I" -> exec_LD_Vx_I(self, instr.vx)

----------------------------------------------------------------------------
(* Bounds of the model *)

\* random() yields a byte in 0 .. MaxRand
MaxRand == 3
\* CALL is not taken when the call stack already holds MaxStack entries
MaxStack == 18
\* the same limit for the cartridges that recurse until SP, a u8, overflows
MaxDeep == 257
\* key vectors in flight on the unbounded key channel
MaxKeyQueue == 1
\* last.n and timer_log[t].ticks stop counting here
CycleCap == 1
TickCap == 6

RandBytes == 0 .. MaxRand
OverflowModes == {"panic", "wrap"}
Timers == {"DT", "ST"}
\* what window.get_keys() can return: no key, the key of code 0, an unmapped
\* key held before a mapped one
KeyVectors == {<<>>, <<"X">>, <<"Space", "Key1">>}

----------------------------------------------------------------------------
(* cpu.rs: CHIP8::new and CHIP8::load *)

\* the cartridge file: big-endian 16-bit opcodes as a byte stream
cartridge_bytes(words) ==
    [k \in 1 .. 2 * Len(words) |->
        IF k % 2 = 1 THEN words[(k + 1) \div 2] \div U8 ELSE words[k \div 2] % U8]

\* f.read(&mut self.ram[0x200..]) on the fresh ram: the bytes that fit, at
\* 0x200 onwards
load(bytes) ==
    LET room == RAM_LEN - PROGRAM_START
        count == IF Len(bytes) < room THEN Len(bytes) ELSE room
        written == {a \in PROGRAM_START .. PROGRAM_START + count - 1 :
                        bytes[a - PROGRAM_START + 1] # new_ram(a)}
    IN [a \in written |-> bytes[a - PROGRAM_START + 1]]

NoCycle ==
    [n |-> 0, opcode |-> -1, instr |-> InstrNone("none"),
     PC |-> 0, SP |-> 0, I |-> 0, Vx |-> [r \in 0 .. 15 |-> 0], stack |-> <<>>,
     ram |-> [a \in {} |-> 0], buffer |-> {},
     prev_opcode |-> -1, prev_buffer |-> {}, calls |-> <<>>, stored |-> None]

NoLog == [set |-> 0, ticks |-> 0, before |-> 0, after |-> 0]

\* The state once main has built the CHIP8 and loaded the cartridge `words`.
InitWith(words) ==
    /\ PC = PROGRAM_START
    /\ SP = 0
    /\ I = 0
    /\ Vx = [r \in 0 .. 15 |-> 0]
    /\ DT = 0
    /\ ST = 0
    /\ stack = <<>>
    /\ ram = load(cartridge_bytes(words))
    /\ buffer = {}
    /\ status = "running"
    /\ epc = [at |-> "fetch", collision |-> FALSE]
    /\ last = NoCycle
    /\ tpc = [t \in Timers |-> "sleep"]
    /\ timer_log = [t \in Timers |-> NoLog]
    /\ dpc = "loop"
    /\ buf_chan = <<>>
    /\ key_chan = <<>>
    /\ win_keys = <<>>
    /\ keys_pressed = <<>>
    /\ shown = {}

----------------------------------------------------------------------------
(* display.rs: Display::is_window_open, as the engine sees it.              *)
(* end_rx.try_recv() is Err(Disconnected) once the display thread is done   *)
(* (end_tx dropped); it takes the end signal when the display thread is     *)
(* blocked in end_tx.send on the rendezvous channel, which unblocks it.     *)

is_window_open == dpc # "done"

end_rx_try_recv == IF dpc = "send_end" THEN "flush" ELSE dpc

----------------------------------------------------------------------------
(* cpu.rs: CHIP8::run, one iteration of the loop *)

Self ==
    [PC |-> PC, SP |-> SP, I |-> I, Vx |-> Vx, DT |-> DT, ST |-> ST,
     stack |-> stack, ram |-> ram, buffer |-> buffer,
     keys_pressed |-> keys_pressed,
     panic |-> "none", next |-> "done", collision |-> FALSE]

\* an exception list that also spares RET the increment
increment_not_after_RET(instr) == instr.op \notin {"JP", "JP_V0", "CALL", "RET"}

\* let mut increment = true; match instr { JP | JP_V0 | CALL => increment = false }
increment(instr) == instr.op \notin {"JP", "JP_V0", "CALL"}

\* the loop condition, after is_window_open() returned `open`
run_condition(open) == open /\ PC + 1 <= RAM_LEN

rand_choices(instr) == IF instr.op = "RND" THEN RandBytes ELSE {0}

overflow_choices(instr) ==
    IF instr.op \in {"CALL", "ADD_I", "DRW"} THEN OverflowModes ELSE {"wrap"}

\* The calls still open when a cycle starts: the cycle before it, having
\* completed, opened one if it was a CALL (recorded with the machine as it
\* was when that CALL was fetched) and closed the latest if it was a RET.
open_calls ==
    CASE last.instr.op = "CALL" ->
            Append(last.calls, [at |-> last.PC, SP |-> last.SP, stack |-> last.stack])
      [] last.instr.op = "RET" -> Front(last.calls)
      [] OTHER -> last.calls

\* The latest completed LD_I_Vx when a cycle starts: the index, the operand
\* and the registers it ran with, and the memory it left.
latest_store ==
    IF last.instr.op = "LD_I_Vx"
    THEN Some([I |-> last.I, vx |-> last.instr.vx, Vx |-> last.Vx, ram |-> ram])
    ELSE last.stored

Started(opcode, instr) ==
    [n |-> IF last.n < CycleCap THEN last.n + 1 ELSE last.n,
     opcode |-> opcode, instr |-> instr,
     PC |-> PC, SP |-> SP, I |-> I, Vx |-> Vx, stack |-> stack,
     ram |-> ram, buffer |-> buffer,
     prev_opcode |-> last.opcode, prev_buffer |-> last.buffer,
     calls |-> open_calls, stored |-> latest_store]

\* set_dt / set_st replace the timer's value; the log restarts
LogAfter(instr, r) ==
    CASE instr.op = "LD_DT_Vx" -> [timer_log EXCEPT !["DT"] = [NoLog EXCEPT !.set = r.DT]]
      [] instr.op = "LD_ST_Vx" -> [timer_log EXCEPT !["ST"] = [NoLog EXCEPT !.set = r.ST]]
      [] OTHER -> timer_log

CycleWithin(depth) ==
    /\ status = "running"
    /\ epc.at = "fetch"
    /\ dpc' = end_rx_try_recv
    /\ UNCHANGED <<tpc, buf_chan, key_chan, win_keys, keys_pressed, shown>>
    /\ IF ~run_condition(is_window_open)
       THEN /\ status' = "halted"
            /\ UNCHANGED <<PC, SP, I, Vx, DT, ST, stack, ram, buffer, epc, last, timer_log>>
       ELSE IF PC + 1 >= RAM_LEN
       THEN /\ status' = "panic_index"
            /\ UNCHANGED <<PC, SP, I, Vx, DT, ST, stack, ram, buffer, epc, last, timer_log>>
       ELSE LET opcode == ram_read(ram, PC) * 256 + ram_read(ram, PC + 1)
                instr == decode_instruction(opcode)
            IN IF instr = Unrecognized
               THEN /\ status' = "panic_decode"
                    /\ last' = Started(opcode, instr)
                    /\ UNCHANGED <<PC, SP, I, Vx, DT, ST, stack, ram, buffer, epc, timer_log>>
               ELSE /\ ~(instr.op = "CALL" /\ Len(stack) >= depth)
                    /\ \E rand \in rand_choices(instr), ovf \in overflow_choices(instr) :
                         \E r \in {execute_instruction(Self, instr, rand, ovf)} :
                         LET done == r.panic = "none" /\ r.next = "done"
                         IN /\ PC' = IF done /\ increment(instr) THEN r.PC + 2 ELSE r.PC
                            /\ SP' = r.SP
                            /\ I' = r.I
                            /\ Vx' = r.Vx
                            /\ DT' = r.DT
                            /\ ST' = r.ST
                            /\ stack' = r.stack
                            /\ ram' = r.ram
                            /\ buffer' = r.buffer
                            /\ status' = IF r.panic # "none" THEN r.panic ELSE "running"
                            /\ epc' = [at |-> IF r.panic = "none" THEN
                                                 (IF r.next = "done" THEN "fetch" ELSE r.next)
                                              ELSE "fetch",
                                       collision |-> r.collision]
                            /\ last' = Started(opcode, instr)
                            /\ timer_log' = LogAfter(instr, r)

Cycle == CycleWithin(MaxStack)

(* display.rs: Display::update_buffer, called by CLS and DRW:               *)
(* buf_tx.send(buffer).unwrap() blocks while the one-slot channel is full   *)
(* and panics when buf_rx is gone.  DRW then writes VF, and run adds 2.     *)
Publish ==
    /\ status = "running"
    /\ epc.at = "publish"
    /\ ~(dpc # "done" /\ Len(buf_chan) >= 1)
    /\ UNCHANGED <<SP, I, DT, ST, stack, ram, buffer, last, tpc, timer_log, dpc,
                   key_chan, win_keys, keys_pressed, shown>>
    /\ IF dpc = "done"
       THEN /\ status' = "panic_send"
            /\ UNCHANGED <<PC, Vx, epc, buf_chan>>
       ELSE /\ buf_chan' = Append(buf_chan, buffer)
            /\ Vx' = IF last.instr.op = "DRW"
                     THEN [Vx EXCEPT ![15] = bool_as_u8(epc.collision)]
                     ELSE Vx
            /\ PC' = IF increment(last.instr) THEN PC + 2 ELSE PC
            /\ epc' = [at |-> "fetch", collision |-> FALSE]
            /\ UNCHANGED status

(* cpu.rs: one iteration of the LD_Vx_K loop:                               *)
(* while is_window_open() { if let Some(key) = get_key_down() { if let      *)
(* Some(val) = map_key_to_u8(key) { set Vx; break } } }                     *)
\* a poll that looks at the key pressed last instead of the first one
get_key_down_last == IF keys_pressed = <<>> THEN None ELSE Some(keys_pressed[Len(keys_pressed)])

\* Display::get_key_down: keys_pressed.get(0)
get_key_down == IF keys_pressed = <<>> THEN None ELSE Some(keys_pressed[1])

KeyWait ==
    /\ status = "running"
    /\ epc.at = "keywait"
    /\ dpc' = end_rx_try_recv
    /\ UNCHANGED <<SP, I, DT, ST, stack, ram, buffer, status, last, tpc, timer_log,
                   buf_chan, key_chan, win_keys, keys_pressed, shown>>
    /\ LET key == get_key_down
           val == IF key = None THEN None ELSE map_key_to_u8(unwrap(key))
       IN IF ~is_window_open
          THEN /\ PC' = IF increment(last.instr) THEN PC + 2 ELSE PC
               /\ epc' = [at |-> "fetch", collision |-> FALSE]
               /\ UNCHANGED Vx
          ELSE IF val # None
          THEN /\ Vx' = [Vx EXCEPT ![last.instr.vx] = unwrap(val)]
               /\ PC' = IF increment(last.instr) THEN PC + 2 ELSE PC
               /\ epc' = [at |-> "fetch", collision |-> FALSE]
          ELSE UNCHANGED <<PC, Vx, epc>>

----------------------------------------------------------------------------
(* registers.rs: the timer thread spawned by spawn_timer_thread, one per    *)
(* timer: loop { sleep; if lock.load() != 0 { lock.fetch_sub(1) } }         *)

timer_val(t) == IF t = "DT" THEN DT ELSE ST

count_tick(log) == IF log.ticks < TickCap THEN log.ticks + 1 ELSE log.ticks

\* lock.load(Ordering::Relaxed) != 0
TickLoad(t) ==
    /\ tpc[t] = "sleep"
    /\ IF timer_val(t) # 0
       THEN /\ tpc' = [tpc EXCEPT ![t] = "dec"]
            /\ UNCHANGED timer_log
       ELSE /\ timer_log' = [timer_log EXCEPT ![t].ticks = count_tick(timer_log[t])]
            /\ UNCHANGED tpc
    /\ UNCHANGED <<PC, SP, I, Vx, DT, ST, stack, ram, buffer, status, epc, last,
                   dpc, buf_chan, key_chan, win_keys, keys_pressed, shown>>

\* AtomicU8::fetch_sub(1) wraps around on underflow
fetch_sub(v) == (v - 1) % U8

\* lock.fetch_sub(1, Ordering::SeqCst)
TickDec(t) ==
    /\ tpc[t] = "dec"
    /\ tpc' = [tpc EXCEPT ![t] = "sleep"]
    /\ DT' = IF t = "DT" THEN fetch_sub(DT) ELSE DT
    /\ ST' = IF t = "ST" THEN fetch_sub(ST) ELSE ST
    /\ timer_log' = [timer_log EXCEPT ![t] =
                        [set |-> @.set, ticks |-> count_tick(@),
                         before |-> timer_val(t), after |-> fetch_sub(timer_val(t))]]
    /\ UNCHANGED <<PC, SP, I, Vx, stack, ram, buffer, status, epc, last,
                   dpc, buf_chan, key_chan, win_keys, keys_pressed, shown>>

----------------------------------------------------------------------------
(* display.rs: the display thread spawned by Display::init, and the thread  *)
(* that copies key vectors into keys_pressed                                *)

\* one pass of the refresh loop: take a frame if one is pending, draw, then
\* send the keys on when they changed
DisplayRefresh ==
    /\ dpc = "loop"
    /\ \E new_keys \in KeyVectors :
         /\ win_keys # new_keys => Len(key_chan) < MaxKeyQueue
         /\ win_keys' = new_keys
         /\ key_chan' = IF win_keys # new_keys THEN Append(key_chan, new_keys) ELSE key_chan
    /\ IF buf_chan # <<>>
       THEN shown' = Head(buf_chan) /\ buf_chan' = Tail(buf_chan)
       ELSE UNCHANGED <<shown, buf_chan>>
    /\ UNCHANGED <<PC, SP, I, Vx, DT, ST, stack, ram, buffer, status, epc, last,
                   tpc, timer_log, dpc, keys_pressed>>

\* the window was closed or Escape is down: the loop ends and the thread
\* blocks in end_tx.send(true)
DisplayClose ==
    /\ dpc = "loop"
    /\ dpc' = "send_end"
    /\ UNCHANGED <<PC, SP, I, Vx, DT, ST, stack, ram, buffer, status, epc, last,
                   tpc, timer_log, buf_chan, key_chan, win_keys, keys_pressed, shown>>

\* buf_rx.try_recv().unwrap(): with or without a frame the thread ends here,
\* dropping buf_rx, end_tx and key_tx
DisplayFlush ==
    /\ dpc = "flush"
    /\ dpc' = "done"
    /\ buf_chan' = <<>>
    /\ UNCHANGED <<PC, SP, I, Vx, DT, ST, stack, ram, buffer, status, epc, last,
                   tpc, timer_log, key_chan, win_keys, keys_pressed, shown>>

\* key_rx.recv() => *keys_pressed.write() = keys
KeyThread ==
    /\ key_chan # <<>>
    /\ keys_pressed' = Head(key_chan)
    /\ key_chan' = Tail(key_chan)
    /\ UNCHANGED <<PC, SP, I, Vx, DT, ST, stack, ram, buffer, status, epc, last,
                   tpc, timer_log, dpc, buf_chan, win_keys, shown>>

----------------------------------------------------------------------------
(* The decoder on every opcode word: the cartridge is one word, and the     *)
(* engine runs while fewer than CycleCap cycles have started.               *)

InitDecode == \E w \in 0 .. U16 - 1 : InitWith(<<w>>)

FirstCycles == last.n < CycleCap /\ Cycle

NextDecode == FirstCycles

SpecDecode == InitDecode /\ [][NextDecode]_vars

----------------------------------------------------------------------------
(* Cartridges.  A cartridge is a sequence of opcode words; Prog(body) ends  *)
(* the body with two jumps to themselves, so that a program that runs (or   *)
(* skips) off its body idles instead of running through the zeroed memory.  *)

op_JP(addr) == 4096 + addr
op_CALL(addr) == 8192 + addr
op_LD(x, byte) == 24576 + 256 * x + byte
op_ADD(x, byte) == 28672 + 256 * x + byte
op_8(x, y, n) == 32768 + 256 * x + 16 * y + n
op_LD_I(addr) == 40960 + addr
op_RND(x, byte) == 49152 + 256 * x + byte
op_F(x, byte) == 61440 + 256 * x + byte

Prog(body) ==
    LET end == PROGRAM_START + 2 * Len(body)
    IN body \o <<op_JP(end), op_JP(end + 2)>>

----------------------------------------------------------------------------
(* The arithmetic instructions on chosen operands: the cartridge loads the  *)
(* operands with LD Vx, byte and then runs one instruction.                 *)

\* destination and source registers: a low register, another, and the flag
\* register VF
AluRegs == {0, 1, 15}
\* operand values for the two-operand instructions
AluVals == {0, 1, 2, 3, 5, 8, 12, 100, 127, 128, 200, 254, 255}
\* where LD_B stores: mid memory, the last three bytes, one byte too far
BcdAddrs == {768, 4092, 4093}

AluCartridges ==
    { Prog(<<op_LD(x, a), op_LD(y, b), op_8(x, y, n)>>) :
        x \in AluRegs, y \in AluRegs, a \in AluVals, b \in AluVals, n \in {4, 5, 7} }
    \cup { Prog(<<op_LD(x, a), op_ADD(x, b)>>) :
        x \in AluRegs, a \in AluVals, b \in AluVals }
    \cup { Prog(<<op_LD(x, v), op_8(x, y, n)>>) :
        x \in AluRegs, y \in {0}, v \in 0 .. U8 - 1, n \in {6, 14} }
    \cup { Prog(<<op_LD_I(addr), op_LD(x, v), op_F(x, 51)>>) :
        addr \in BcdAddrs, x \in AluRegs, v \in 0 .. U8 - 1 }

InitAlu == \E words \in AluCartridges : InitWith(words)

NextAlu == Cycle

SpecAlu == InitAlu /\ [][NextAlu]_vars

----------------------------------------------------------------------------
(* The engine with the display thread and the key thread: every instruction *)
(* variant alone, and after an instruction that sets the scene for it.      *)

\* one word of every instruction variant, and three words no arm decodes
PlainWords ==
    { 291,      \* 0123 SYS
      224,      \* 00E0 CLS
      238,      \* 00EE RET
      4612,     \* 1204 JP 204
      45570,    \* B202 JP_V0 202
      8706,     \* 2202 CALL 202
      12288,    \* 3000 SE V0, 00
      12289,    \* 3001 SE V0, 01
      16384,    \* 4000 SNE V0, 00
      16385,    \* 4001 SNE V0, 01
      20496,    \* 5010 SE V0, V1
      36880,    \* 9010 SNE V0, V1
      24837,    \* 6105 LD V1, 05
      28933,    \* 7105 ADD V1, 05
      32784,    \* 8010 LD V0, V1
      32785,    \* 8011 OR V0, V1
      32786,    \* 8012 AND V0, V1
      32787,    \* 8013 XOR V0, V1
      32788,    \* 8014 ADD V0, V1
      32789,    \* 8015 SUB V0, V1
      32790,    \* 8016 SHR V0
      32791,    \* 8017 SUBN V0, V1
      32798,    \* 801E SHL V0
      41728,    \* A300 LD I, 300
      49407,    \* C0FF RND V0, FF
      53269,    \* D015 DRW V0, V1, 5
      57502,    \* E09E SKP V0
      57505,    \* E0A1 SKNP V0
      61447,    \* F007 LD V0, DT
      61450,    \* F00A LD V0, K
      61461,    \* F015 LD DT, V0
      61464,    \* F018 LD ST, V0
      61470,    \* F01E ADD I, V0
      61481,    \* F029 LD F, V0
      61491,    \* F033 LD B, V0
      61781,    \* F155 LD [I], V1
      61797,    \* F165 LD V1, [I]
      32776,    \* 8008 (no such 8xy? arm)
      57344,    \* E000 (no such Ex?? arm)
      61695 }   \* F0FF (no such Fx?? arm)

\* a first instruction that changes what the second one does
SetupWords ==
    { 24577,    \* 6001 LD V0, 01: V0 differs from V1, key code 1
      24592,    \* 6010 LD V0, 10: no key and no sprite has this code
      8706,     \* 2202 CALL 202: the second instruction runs one call deep
      45054,    \* AFFE LD I, FFE: I at the last byte of memory
      53269 }   \* D015 DRW V0, V1, 5: a frame is published, pixels are lit

EngineCartridges ==
    { Prog(<<w>>) : w \in PlainWords }
    \cup { Prog(<<w1, w2>>) : w1 \in SetupWords, w2 \in PlainWords }
    \cup { <<op_CALL(PROGRAM_START)>> }

Init == \E words \in EngineCartridges : InitWith(words)

Next ==
    \/ Cycle
    \/ Publish
    \/ KeyWait
    \/ DisplayRefresh
    \/ DisplayClose
    \/ DisplayFlush
    \/ KeyThread

Spec == Init /\ [][Next]_vars

----------------------------------------------------------------------------
(* The two timer threads against an engine that keeps writing a timer: the  *)
(* cartridge draws a byte, writes it to the timer and starts over.          *)

TimerCartridges ==
    { <<op_RND(0, 255), op_F(0, 21), op_JP(PROGRAM_START)>>,
      <<op_RND(0, 255), op_F(0, 24), op_JP(PROGRAM_START)>> }

InitTimer == \E words \in TimerCartridges : InitWith(words)

Tick == \E t \in Timers : TickLoad(t) \/ TickDec(t)

NextTimer == Cycle \/ Tick

SpecTimer == InitTimer /\ [][NextTimer]_vars

----------------------------------------------------------------------------
(* Drawing: the cartridge loads the coordinates and I, and draws the same   *)
(* sprite twice in a row; in half of the cartridges glyph 0 is drawn at the *)
(* origin first, so that the sprite lands on lit pixels.  The display       *)
(* thread consumes the frames and the keys do not change.                   *)

op_DRW(x, y, n) == 53248 + 256 * x + 16 * y + n

\* coordinates: inside the screen, across its right and bottom edges, and
\* register values beyond the screen's size
DrawXs == {0, 60, 63, 255}
DrawYs == {0, 30, 31, 255}
\* sprite data: glyph 0, glyph 1, the cartridge's own bytes
DrawAddrs == {0, 5, 512}
\* rows: none, one, a glyph, the most a DRW can ask for
DrawRows == {0, 1, 5, 15}

DrawCartridges ==
    { Prog(pre \o <<op_LD(0, x), op_LD(1, y), op_LD_I(addr),
                    op_DRW(0, 1, n), op_DRW(0, 1, n)>>) :
        pre \in {<<>>, <<op_DRW(2, 3, 5)>>},
        x \in DrawXs, y \in DrawYs, addr \in DrawAddrs, n \in DrawRows }

InitDraw == \E words \in DrawCartridges : InitWith(words)

QuietRefresh == DisplayRefresh /\ win_keys' = win_keys

NextDraw ==
    \/ Cycle
    \/ Publish
    \/ QuietRefresh

SpecDraw == InitDraw /\ [][NextDraw]_vars

----------------------------------------------------------------------------
(* What the claims speak of: the cycle recorded in `last` has run to its    *)
(* end (the instruction returned and run has added its increment), and the  *)
(* operands that cycle read.                                                *)

Completed == last.opcode >= 0 /\ epc.at = "fetch" /\ status \in {"running", "halted"}

CompletedOp(op) == Completed /\ last.instr.op = op

\* the value of the first operand register before the cycle
OperandX == last.Vx[last.instr.vx]

\* the value of the second operand (register or immediate) before the cycle
OperandY ==
    IF last.instr.other = "Right" THEN last.instr.byte ELSE last.Vx[last.instr.vy]

----------------------------------------------------------------------------
(* C1, as stated: for each timer, under every interleaving of its tick      *)
(* process with engine writes to it, no tick wraps the counter from 0 to    *)
(* 255: the value after a tick's decrement is never greater than the value  *)
(* the counter held immediately before that decrement.                      *)
C1_TickNeverWraps ==
    \A t \in Timers : timer_log[t].after <= timer_log[t].before

(* C2, as stated: once a timer is set to N and not written again, after k   *)
(* ticks of its tick process its value is N - k while k <= N, and 0 from    *)
(* the N-th tick on.                                                        *)
C2_CountsDownToZero ==
    \A t \in Timers :
        LET N == timer_log[t].set
            k == timer_log[t].ticks
        IN k < TickCap => timer_val(t) = IF k <= N THEN N - k ELSE 0

----------------------------------------------------------------------------
(* C3, as stated: in one engine cycle every instruction other than JP,      *)
(* JP_V0 and CALL leaves PC at its value before the cycle plus 2; JP, JP_V0 *)
(* and CALL leave PC at the address they set, with no increment added.      *)
C3_EveryOtherAdvancesByTwo ==
    Completed =>
        CASE last.instr.op \in {"JP", "CALL"} -> PC = last.instr.addr
          [] last.instr.op = "JP_V0" -> PC = last.instr.addr + last.Vx[0]
          [] OTHER -> PC = last.PC + 2

(* C3, amended: JP, JP_V0 and CALL leave PC at the address they set, with   *)
(* no increment added; every other instruction receives the increment of    *)
(* exactly 2 on top of the PC its execution left: RET ends at the popped    *)
(* return address plus 2, SE / SNE / SKP / SKNP end at PC before plus 4     *)
(* when they skip and plus 2 when they do not, and every remaining          *)
(* instruction ends at PC before plus 2.                                    *)
C3_PcDiscipline ==
    Completed =>
        CASE last.instr.op \in {"JP", "CALL"} -> PC = last.instr.addr
          [] last.instr.op = "JP_V0" -> PC = last.instr.addr + last.Vx[0]
          [] last.instr.op = "RET" -> PC = last.stack[Len(last.stack)] + 2
          [] last.instr.op = "SE" -> PC = last.PC + (IF OperandX = OperandY THEN 4 ELSE 2)
          [] last.instr.op = "SNE" -> PC = last.PC + (IF OperandX # OperandY THEN 4 ELSE 2)
          [] last.instr.op \in {"SKP", "SKNP"} -> PC \in {last.PC + 2, last.PC + 4}
          [] OTHER -> PC = last.PC + 2

\* a RET one call deep has returned to the instruction after the CALL, and
\* that is not the RET's own address plus 2
C3_Witness ==
    /\ CompletedOp("RET")
    /\ last.stack = <<PROGRAM_START>>
    /\ PC = PROGRAM_START + 2
    /\ PC # last.PC + 2

----------------------------------------------------------------------------
(* C4, as stated: the 17th nested CALL does not push: the call stack never  *)
(* holds more than 16 entries and the stack pointer never exceeds 16.       *)
C4_StackNeverExceeds16 == Len(stack) <= 16 /\ SP <= 16

----------------------------------------------------------------------------
(* C5: executing RET on an empty call stack is fatal: the engine stops with *)
(* PC, the stack pointer (not wrapped to 255) and every other register as   *)
(* they were before the RET, and it executes no further step.               *)
C5_RetOnEmptyStackIsFatal ==
    /\ (last.opcode >= 0 /\ last.instr.op = "RET" /\ last.stack = <<>>) =>
          /\ status = "panic_stack_empty"
          /\ PC = last.PC /\ SP = last.SP /\ SP # 255
          /\ I = last.I /\ Vx = last.Vx /\ stack = <<>>
    /\ status = "panic_stack_empty" =>
          /\ last.instr.op = "RET" /\ last.stack = <<>>
          /\ ~ENABLED Cycle /\ ~ENABLED Publish /\ ~ENABLED KeyWait

\* a RET was fetched with nothing on the call stack and the engine stopped
C5_Witness ==
    /\ status = "panic_stack_empty"
    /\ last.instr.op = "RET"
    /\ last.stack = <<>>
    /\ SP = 0

----------------------------------------------------------------------------
(* C6, as stated: after ADD X,(Y|imm), for every destination register X in  *)
(* 0..15, register X holds (x + y) mod 256 and VF holds 1 if x + y > 255    *)
(* and 0 otherwise.                                                         *)
C6_AddEveryRegister ==
    CompletedOp("ADD") =>
        /\ Vx[last.instr.vx] = (OperandX + OperandY) % 256
        /\ Vx[15] = IF OperandX + OperandY > 255 THEN 1 ELSE 0

(* C6, amended: after ADD X,(Y|imm), VF holds 1 if x + y > 255 and 0        *)
(* otherwise, and for every destination register X in 0..14 register X      *)
(* holds (x + y) mod 256; when X is the flag register the flag is written   *)
(* last and replaces the sum.                                               *)
C6_Add ==
    CompletedOp("ADD") =>
        /\ Vx[15] = IF OperandX + OperandY > 255 THEN 1 ELSE 0
        /\ last.instr.vx # 15 => Vx[last.instr.vx] = (OperandX + OperandY) % 256

\* ADD(0xFF, 0x01) gave (0x00, flag = 1) in a register other than VF
C6_Witness ==
    /\ CompletedOp("ADD")
    /\ last.instr.vx # 15
    /\ OperandX = 255 /\ OperandY = 1
    /\ Vx[last.instr.vx] = 0 /\ Vx[15] = 1

(* C7, as stated: after SUB X,Y, for every pair of registers X, Y, register *)
(* X holds (x - y) mod 256 and VF holds 1 if x >= y and 0 if x < y.         *)
C7_SubEveryRegister ==
    CompletedOp("SUB") =>
        /\ Vx[last.instr.vx] = (OperandX - OperandY) % 256
        /\ Vx[15] = IF OperandX >= OperandY THEN 1 ELSE 0

(* C7, amended: after SUB X,Y, VF holds 1 if x >= y (no borrow) and 0 if    *)
(* x < y, and for every X in 0..14 register X holds (x - y) mod 256; when X *)
(* is the flag register the flag is written last and replaces the           *)
(* difference.                                                              *)
C7_Sub ==
    CompletedOp("SUB") =>
        /\ Vx[15] = IF OperandX >= OperandY THEN 1 ELSE 0
        /\ last.instr.vx # 15 => Vx[last.instr.vx] = (OperandX - OperandY) % 256

\* SUB(3, 5) gave (254, flag = 0) in a register other than VF
C7_Witness ==
    /\ CompletedOp("SUB")
    /\ last.instr.vx # 15
    /\ OperandX = 3 /\ OperandY = 5
    /\ Vx[last.instr.vx] = 254 /\ Vx[15] = 0

(* C8, as stated: for every register X in 0..15 holding v, after SHR X, VF  *)
(* is bit 0 of v and VX is v >> 1; after SHL X, VF is bit 7 of v and VX is  *)
(* (v << 1) mod 256.                                                        *)
C8_ShiftEveryRegister ==
    /\ CompletedOp("SHR") =>
          Vx[15] = OperandX % 2 /\ Vx[last.instr.vx] = OperandX \div 2
    /\ CompletedOp("SHL") =>
          Vx[15] = OperandX \div 128 /\ Vx[last.instr.vx] = (OperandX * 2) % 256

(* C8, amended: for every register X in 0..14 holding v, after SHR X, VF is *)
(* bit 0 of v and VX is v >> 1, and after SHL X, VF is bit 7 of v and VX is *)
(* (v << 1) mod 256; when X is the flag register the shifted value is       *)
(* written last and replaces the flag.  For all 256 values of v the flag    *)
(* the code computes (any trailing / leading one bits) is the strict        *)
(* single-bit test.                                                         *)
C8_Shift ==
    /\ CompletedOp("SHR") =>
          /\ Vx[last.instr.vx] = OperandX \div 2
          /\ last.instr.vx # 15 => Vx[15] = OperandX % 2
          /\ (trailing_ones(OperandX) > 0) = (OperandX % 2 = 1)
    /\ CompletedOp("SHL") =>
          /\ Vx[last.instr.vx] = (OperandX * 2) % 256
          /\ last.instr.vx # 15 => Vx[15] = OperandX \div 128
          /\ (leading_ones(OperandX) > 0) = (OperandX \div 128 = 1)

\* SHR of 0b011 gave (0b001, flag = 1) in a register other than VF
C8_Witness ==
    /\ CompletedOp("SHR")
    /\ last.instr.vx # 15
    /\ OperandX = 3
    /\ Vx[last.instr.vx] = 1 /\ Vx[15] = 1

(* C9: for every byte b, to_bcd(b) is <<b div 100, (b div 10) mod 10,       *)
(* b mod 10>>, its digits are in 0..9 and recompose b, and LD_B X stores    *)
(* exactly these digits at memory[I], memory[I+1], memory[I+2].             *)
C9_Bcd ==
    CompletedOp("LD_B") =>
        LET b == OperandX
            digits == to_bcd(b)
        IN /\ digits = <<b \div 100, (b \div 10) % 10, b % 10>>
           /\ \A k \in 1 .. 3 : digits[k] \in 0 .. 9
           /\ 100 * digits[1] + 10 * digits[2] + digits[3] = b
           /\ I = last.I
           /\ \A k \in 1 .. 3 : ram_read(ram, I + k - 1) = digits[k]

\* LD_B of 255 stored 2, 5, 5 at the last three bytes of memory
C9_Witness ==
    /\ CompletedOp("LD_B")
    /\ OperandX = 255
    /\ I = RAM_LEN - 3
    /\ ram_read(ram, I) = 2 /\ ram_read(ram, I + 1) = 5 /\ ram_read(ram, I + 2) = 5

----------------------------------------------------------------------------
\* the words the decoder has no arm for
UnrecognizedWords ==
    {w \in 0 .. U16 - 1 :
        \/ w \div 4096 = 8 /\ w % 16 \notin (0 .. 7) \cup {14}
        \/ w \div 4096 = 14 /\ w % 256 \notin {158, 161}
        \/ w \div 4096 = 15 /\ w % 256 \notin {7, 10, 21, 24, 30, 41, 51, 85, 101}}

\* the variant each recognized word belongs to, by high nibble and, in the
\* families 0x0, 0x8, 0xE and 0xF, by the rest of the word
VariantOf(w) ==
    LET high == w \div 4096
        low == w % 256
    IN CASE high = 0 -> (IF w = 224 THEN "CLS" ELSE IF w = 238 THEN "RET" ELSE "SYS")
         [] high = 1 -> "JP"
         [] high = 2 -> "CALL"
         [] high \in {3, 5} -> "SE"
         [] high \in {4, 9} -> "SNE"
         [] high = 6 -> "LD"
         [] high = 7 -> "ADD"
         [] high = 8 ->
              <<"LD", "OR", "AND", "XOR", "ADD", "SUB", "SHR", "SUBN",
                "", "", "", "", "", "", "SHL", "">>[(w % 16) + 1]
         [] high = 10 -> "LD_I"
         [] high = 11 -> "JP_V0"
         [] high = 12 -> "RND"
         [] high = 13 -> "DRW"
         [] high = 14 -> (IF low = 158 THEN "SKP" ELSE "SKNP")
         [] high = 15 ->
              CASE low = 7 -> "LD_Vx_DT"
                [] low = 10 -> "LD_Vx_K"
                [] low = 21 -> "LD_DT_Vx"
                [] low = 24 -> "LD_ST_Vx"
                [] low = 30 -> "ADD_I"
                [] low = 41 -> "LD_F"
                [] low = 51 -> "LD_B"
                [] low = 85 -> "LD_I_Vx"
                [] low = 101 -> "LD_Vx_I"

(* C10: every one of the 65536 opcode words decodes: to the fatal decode    *)
(* error exactly when it is an unrecognized word of the families 0x8, 0xE   *)
(* or 0xF, and otherwise to the one variant its high nibble (and, in the    *)
(* families 0x0, 0x8, 0xE, 0xF, its low nibble or low byte) selects.        *)
(* Decoding changes nothing: when it fails, registers, stack, memory and    *)
(* frame buffer are as they were when the word was fetched.                 *)
C10_DecodeTotal ==
    last.opcode >= 0 =>
        LET w == last.opcode
        IN /\ last.instr = decode_instruction(w)
           /\ (status = "panic_decode") = (w \in UnrecognizedWords)
           /\ (last.instr = Unrecognized) = (w \in UnrecognizedWords)
           /\ w \notin UnrecognizedWords => last.instr.op = VariantOf(w)
           /\ w \in UnrecognizedWords =>
                 /\ PC = last.PC /\ SP = last.SP /\ I = last.I
                 /\ Vx = last.Vx /\ stack = last.stack
                 /\ ram = last.ram /\ buffer = last.buffer

\* the decode error was raised for 0x8008, 0xE000 and so on; this state is
\* the one for 0xF01F, one past ADD_I
C10_Witness ==
    /\ status = "panic_decode"
    /\ last.opcode = 61471
    /\ PC = PROGRAM_START

----------------------------------------------------------------------------
\* the operands the claim expects the decoder to build from the bit fields of
\* w, for the variant `op`
FieldsOf(op, w) ==
    LET high == w \div 4096
        x == (w \div 256) % 16
        y == (w \div 16) % 16
        n == w % 16
        kk == w % 256
        nnn == w % 4096
    IN CASE op \in {"CLS", "RET"} -> Instr(op, 0, 0, 0, 0, 0, "none")
         [] op \in {"SYS", "JP", "CALL", "LD_I", "JP_V0"} -> Instr(op, 0, 0, 0, nnn, 0, "none")
         [] high \in {3, 4, 6, 7} -> Instr(op, x, 0, kk, 0, 0, "Right")
         [] high \in {5, 9} \/ (high = 8 /\ n \in {0, 4}) -> Instr(op, x, y, 0, 0, 0, "Left")
         [] op \in {"OR", "AND", "XOR", "SUB", "SUBN"} -> Instr(op, x, y, 0, 0, 0, "none")
         [] op = "RND" -> Instr(op, x, 0, kk, 0, 0, "none")
         [] op = "DRW" -> Instr(op, x, y, 0, 0, n, "none")
         [] OTHER -> Instr(op, x, 0, 0, 0, 0, "none")

(* C11: for every 16-bit opcode w the extractors return the fixed bit       *)
(* fields of w (get_first bits 15..12, get_vx bits 11..8, get_vy bits 7..4, *)
(* get_nibble bits 3..0, get_addr bits 11..0, get_byte bits 7..0), the      *)
(* fields recompose w, and the decoded instruction carries exactly the      *)
(* fields its variant takes.                                                *)
C11_Fields ==
    last.opcode >= 0 =>
        LET w == last.opcode
        IN /\ get_first(w) = w \div 4096
           /\ get_vx(w) = (w \div 256) % 16
           /\ get_vy(w) = (w \div 16) % 16
           /\ get_nibble(w) = w % 16
           /\ get_addr(w) = w % 4096
           /\ get_byte(w) = w % 256
           /\ w = get_first(w) * 4096 + get_addr(w)
           /\ get_addr(w) = get_vx(w) * 256 + get_byte(w)
           /\ get_byte(w) = get_vy(w) * 16 + get_nibble(w)
           /\ last.instr # Unrecognized => last.instr = FieldsOf(last.instr.op, w)

\* 0xD123 was fetched and decoded to DRW(register 1, register 2, nibble 3)
C11_Witness ==
    /\ last.opcode = 53539
    /\ last.instr = Instr("DRW", 1, 2, 0, 0, 3, "none")
    /\ get_addr(4660) = 564
    /\ decode_instruction(4660) = Instr("JP", 0, 0, 0, 564, 0, "none")

----------------------------------------------------------------------------
\* the sprite rows the DRW recorded in `last` read: memory[I .. I+n)
DrawnRows == [k \in 1 .. last.instr.nibble |-> ram_read(last.ram, last.I + k - 1)]

\* the pixels a reference blit toggles: for every row j and every set bit i,
\* counted from the most significant, column (VX + i) mod 64 of row
\* (VY + j) mod 32
DrawnPixels ==
    {64 * ((last.Vx[last.instr.vy] + j) % 32) + ((last.Vx[last.instr.vx] + i) % 64) :
        <<j, i>> \in {h \in (0 .. last.instr.nibble - 1) \X (0 .. 7) :
                        (DrawnRows[h[1] + 1] \div pow2(7 - h[2])) % 2 = 1}}

\* the cycle in `last` is a DRW that repeats the DRW before it: same opcode,
\* and coordinates in registers that a DRW does not write
RepeatedDraw ==
    /\ CompletedOp("DRW")
    /\ last.prev_opcode = last.opcode
    /\ last.instr.vx # 15 /\ last.instr.vy # 15

(* C12: drawing the same sprite twice in a row at the same coordinates      *)
(* restores the pixel buffer as it was before the first draw, whatever it   *)
(* held; when the first draw was onto a cleared buffer and the sprite has a *)
(* set bit, the first draw reported no collision and lit pixels, and the    *)
(* second put every touched pixel out and reported a collision.             *)
C12_DrawTwiceRestores ==
    RepeatedDraw =>
        /\ buffer = last.prev_buffer
        /\ (last.prev_buffer = {} /\ DrawnPixels # {}) =>
              /\ last.Vx[15] = 0
              /\ last.buffer = DrawnPixels
              /\ buffer = {}
              /\ Vx[15] = 1

\* glyph 0 was drawn twice across the corner of a cleared screen
C12_Witness ==
    /\ RepeatedDraw
    /\ last.prev_buffer = {}
    /\ last.instr.nibble = 5 /\ last.I = 0
    /\ last.Vx[0] = 63 /\ last.Vx[1] = 31
    /\ Cardinality(last.buffer) = 14
    /\ buffer = {} /\ Vx[15] = 1

(* C13: DRW X,Y,n reads memory[I .. I+n) as rows and toggles exactly the    *)
(* pixels of the reference blit, each wrapped on its own axis; every index  *)
(* stays inside the 64x32 buffer, every other pixel is as it was, and VF is *)
(* 1 if a lit pixel was put out and 0 otherwise.                            *)
C13_DrawIsWrappedXor ==
    CompletedOp("DRW") =>
        /\ buffer = (last.buffer \ DrawnPixels) \cup (DrawnPixels \ last.buffer)
        /\ buffer \subseteq 0 .. WIDTH * HEIGHT - 1
        /\ Vx[15] = IF DrawnPixels \cap last.buffer # {} THEN 1 ELSE 0
        /\ \A r \in 0 .. 14 : Vx[r] = last.Vx[r]
        /\ I = last.I /\ ram = last.ram /\ PC = last.PC + 2

\* glyph 0 drawn at x = 63, y = 31 onto glyph 0 at the origin: its top row
\* is on row 31, its left column on column 63, and it put pixels out
C13_Witness ==
    /\ CompletedOp("DRW")
    /\ last.instr.nibble = 5 /\ last.I = 0
    /\ last.Vx[last.instr.vx] = 63 /\ last.Vx[last.instr.vy] = 31
    /\ last.buffer # {}
    /\ 1984 \in DrawnPixels /\ 63 \in DrawnPixels /\ 2 \in DrawnPixels
    /\ 1984 \in buffer /\ 63 \in buffer /\ 2 \notin buffer
    /\ Vx[15] = 1

----------------------------------------------------------------------------
\* the engine is inside update_buffer: the frame is not yet on the channel
Publishing == status = "running" /\ epc.at = "publish"

(* C14, as stated: a frame publish never blocks for good: whenever the      *)
(* engine is inside a publish, the publish can complete or the display      *)
(* thread can take the step that lets it complete, also while the display   *)
(* thread runs its shutdown sequence; and never is more than one published  *)
(* frame pending.                                                           *)
C14_PublishNeverStuck ==
    /\ Len(buf_chan) <= 1
    /\ Publishing => ENABLED Publish \/ ENABLED DisplayRefresh \/ ENABLED DisplayFlush

(* C17, as stated: once the display thread has left its refresh loop the    *)
(* engine is never stopped by a frame publish to the closed surface, and    *)
(* the two threads never wait for each other (the engine for room on the    *)
(* frame channel, the display thread for its end signal to be taken).       *)
C17_ShutdownIsCooperative ==
    dpc # "loop" =>
        /\ status # "panic_send"
        /\ ~(Publishing /\ dpc = "send_end" /\ buf_chan # <<>>)

----------------------------------------------------------------------------
\* the run loop is about to fetch: its condition holds in this state
Fetching == status = "running" /\ epc.at = "fetch" /\ run_condition(is_window_open)

(* C15, as stated: in every state in which the run loop fetches an opcode,  *)
(* PC and PC + 1 are both indices of the memory (0 .. RAM_LEN - 1); a PC    *)
(* past the last position two bytes can be fetched from makes the loop halt *)
(* instead.                                                                 *)
C15_FetchInsideMemory ==
    Fetching => PC \in 0 .. RAM_LEN - 1 /\ PC + 1 \in 0 .. RAM_LEN - 1

----------------------------------------------------------------------------
(* C16: SUBN X,Y leaves the register file that SUB Y,X leaves: the wrapped  *)
(* difference VY - VX goes to register Y, VF is 1 iff VY >= VX (written     *)
(* last), and register X keeps its value when X is neither Y nor F; nothing *)
(* else changes.                                                            *)
C16_SubnIsSubSwapped ==
    CompletedOp("SUBN") =>
        LET X == last.instr.vx
            Y == last.instr.vy
            x == last.Vx[X]
            y == last.Vx[Y]
            before == [Self EXCEPT !.Vx = last.Vx]
        IN /\ Vx = [[last.Vx EXCEPT ![Y] = (y - x) % 256]
                        EXCEPT ![15] = IF y >= x THEN 1 ELSE 0]
           /\ Vx = exec_SUB(before, Y, X).Vx
           /\ (X # Y /\ X # 15) => Vx[X] = x
           /\ PC = last.PC + 2 /\ I = last.I /\ stack = last.stack /\ ram = last.ram

\* SUBN V0,V1 with V0 = 3, V1 = 5 left 2 in V1, 3 in V0 and 1 in VF
C16_Witness ==
    /\ CompletedOp("SUBN")
    /\ last.instr.vx = 0 /\ last.instr.vy = 1
    /\ last.Vx[0] = 3 /\ last.Vx[1] = 5
    /\ Vx[0] = 3 /\ Vx[1] = 2 /\ Vx[15] = 1

----------------------------------------------------------------------------
\* the engine is suspended in LD_Vx_K
Waiting == status = "running" /\ epc.at = "keywait"

\* the code of the key a poll observes: the first pressed key, when it is one
\* of the sixteen mapped keys
ObservedCode ==
    IF keys_pressed = <<>> THEN None ELSE map_key_to_u8(keys_pressed[1])

(* C18: while the engine is suspended in LD_Vx_K X, every step leaves I,    *)
(* the stack, memory and every register other than VX as they are, and PC   *)
(* at the key-wait instruction; a step in which no mapped key is observed   *)
(* while the surface is reported running does not end the wait and changes  *)
(* nothing; the wait ends either with a mapped key observed while the       *)
(* surface is reported running, VX then holding that key's code, a value in *)
(* 0..15, or with the surface reported stopped and VX unmodified; in both   *)
(* cases PC then advances by 2.                                             *)
C18_KeyWait ==
    [][ Waiting =>
          LET X == last.instr.vx
              resumed == epc'.at # "keywait"
          IN /\ last.instr.op = "LD_Vx_K" /\ PC = last.PC
             /\ I' = I /\ SP' = SP /\ stack' = stack /\ ram' = ram /\ buffer' = buffer
             /\ \A r \in (0 .. 15) \ {X} : Vx'[r] = Vx[r]
             /\ status' = status
             /\ ~resumed => PC' = PC /\ Vx' = Vx
             /\ (is_window_open /\ ObservedCode = None) => ~resumed
             /\ resumed =>
                   /\ PC' = PC + 2
                   /\ IF is_window_open
                      THEN /\ ObservedCode # None
                           /\ unwrap(ObservedCode) \in 0 .. 15
                           /\ Vx'[X] = unwrap(ObservedCode)
                      ELSE Vx' = Vx
      ]_vars

\* LD V0, K with V0 = 1 has resumed on the key of code 0 with the window open
C18_Witness ==
    /\ CompletedOp("LD_Vx_K")
    /\ last.Vx[last.instr.vx] = 1
    /\ Vx[last.instr.vx] = 0
    /\ PC = last.PC + 2
    /\ dpc = "loop"

----------------------------------------------------------------------------
\* this step is the engine cycle that fetches and executes a SKP or SKNP
SkipOnKeyStep ==
    /\ status = "running" /\ epc.at = "fetch"
    /\ PC' # PC \/ status' # status
    /\ last'.PC = PC
    /\ last'.instr.op \in {"SKP", "SKNP"}

(* C19: a cycle that executes SKP X or SKNP X with VX greater than 15 is    *)
(* fatal and leaves PC and the registers as they were; with VX in 0..15,    *)
(* SKP adds 4 to PC if the key of code VX is among the pressed keys and 2   *)
(* otherwise, SKNP adds 4 if it is not and 2 otherwise; and the two key     *)
(* maps are inverse to each other on 0..15, with sixteen distinct keys.     *)
C19_SkipOnKey ==
    [][ SkipOnKeyStep =>
          LET v == Vx[last'.instr.vx]
              down == \E k \in 1 .. Len(keys_pressed) :
                         Some(keys_pressed[k]) = map_u8_to_key(v)
              wants_down == last'.instr.op = "SKP"
          IN /\ \A c \in 0 .. 15 :
                   /\ map_u8_to_key(c) # None
                   /\ map_key_to_u8(unwrap(map_u8_to_key(c))) = Some(c)
             /\ Cardinality({map_u8_to_key(c) : c \in 0 .. 15}) = 16
             /\ \A c \in 16 .. 255 : map_u8_to_key(c) = None
             /\ Vx' = Vx /\ I' = I /\ stack' = stack /\ ram' = ram
             /\ IF v > 15
                THEN status' = "panic_key" /\ PC' = PC
                ELSE /\ status' = "running"
                     /\ PC' = PC + (IF down = wants_down THEN 4 ELSE 2)
      ]_vars

\* SKP V0 with V0 = 1 has skipped: Key1 was down, held after an unmapped key
C19_Witness ==
    /\ CompletedOp("SKP")
    /\ last.Vx[last.instr.vx] = 1
    /\ PC = last.PC + 4
    /\ keys_pressed = <<"Space", "Key1">>

----------------------------------------------------------------------------
(* C20: one cycle of SE X,(Y|imm) leaves PC at PC before plus 4 if VX       *)
(* equals the operand and plus 2 otherwise; one cycle of SNE leaves it at   *)
(* plus 4 if VX differs from the operand and plus 2 otherwise; neither      *)
(* changes a register (the flag register included), I, memory, the stack or *)
(* the frame buffer.                                                        *)
C20_SkipOnCompare ==
    (CompletedOp("SE") \/ CompletedOp("SNE")) =>
        LET equal == OperandX = OperandY
            skips == IF last.instr.op = "SE" THEN equal ELSE ~equal
        IN /\ last.instr.other \in {"Left", "Right"}
           /\ PC = last.PC + (IF skips THEN 4 ELSE 2)
           /\ Vx = last.Vx /\ I = last.I /\ SP = last.SP
           /\ stack = last.stack /\ ram = last.ram /\ buffer = last.buffer

\* SNE V0,V1 with V0 = 1 and V1 = 0 has skipped the instruction after it
C20_Witness ==
    /\ CompletedOp("SNE")
    /\ last.instr.other = "Left"
    /\ OperandX = 1 /\ OperandY = 0
    /\ PC = last.PC + 4

----------------------------------------------------------------------------
(* Subroutines: cartridges of four instructions drawn from calls into the   *)
(* cartridge itself, returns and a load, so that calls nest, recurse and    *)
(* return in every order.                                                   *)

op_RET == 238

CallTargets == {PROGRAM_START + 2 * k : k \in 0 .. 3}

CallWords == {op_CALL(t) : t \in CallTargets} \cup {op_RET, op_LD(1, 1)}

CallCartridges ==
    { Prog(<<a, b, c, d>>) : a \in CallWords, b \in CallWords,
                             c \in CallWords, d \in CallWords }

InitCall == \E words \in CallCartridges : InitWith(words)

NextCall == Cycle

SpecCall == InitCall /\ [][NextCall]_vars

----------------------------------------------------------------------------
(* C21: CALL and RET are matched last in, first out.  When a RET completes, *)
(* the call it closes is the latest call still open; if that CALL was       *)
(* fetched at address p, execution resumes at p + 2, and the call stack and *)
(* the stack pointer are as they were when that CALL was fetched.  With     *)
(* nested calls the returns therefore resume at the call sites in reverse   *)
(* order of the calls.                                                      *)

ClosedCall == last.calls[Len(last.calls)]

C21_CallRetMatchedLifo ==
    CompletedOp("RET") =>
        /\ last.calls # <<>>
        /\ PC = ClosedCall.at + 2
        /\ stack = ClosedCall.stack
        /\ SP = ClosedCall.SP

\* the inner of two nested calls made at different addresses has returned
C21_Witness ==
    /\ CompletedOp("RET")
    /\ Len(last.calls) >= 2
    /\ last.calls[Len(last.calls) - 1].at # ClosedCall.at
    /\ PC = ClosedCall.at + 2
    /\ stack = <<last.calls[Len(last.calls) - 1].at>>

----------------------------------------------------------------------------
(* Register blocks: the cartridge gives every register its own value,       *)
(* points the index at a place in memory, stores registers 0..X, gives      *)
(* every register another value and loads registers 0..X back.              *)

\* the index: the glyph table, free memory, the last place where registers
\* 0..X fit, and one byte further
RegsAddrs(x) == {0, 768, RAM_LEN - 1 - x, RAM_LEN - x}

\* the values of the registers before the store, and before the load
RegsFills == {[r \in 0 .. 15 |-> r + 1], [r \in 0 .. 15 |-> 255 - r]}
RegsClobber == [r \in 0 .. 15 |-> 170]

fill_regs(vals) == [r \in 1 .. 16 |-> op_LD(r - 1, vals[r - 1])]

RegsCartridges ==
    { Prog(fill_regs(vals) \o <<op_LD_I(addr), op_F(x, 85)>>
           \o fill_regs(RegsClobber) \o <<op_F(x, 101)>>) :
        vals \in RegsFills,
        addr \in UNION {RegsAddrs(x0) : x0 \in 0 .. 15},
        x \in 0 .. 15 }

InitRegs == \E words \in RegsCartridges : InitWith(words)

NextRegs == Cycle

SpecRegs == InitRegs /\ [][NextRegs]_vars

----------------------------------------------------------------------------
(* C22: LD_I_Vx and LD_Vx_I are inverse.  With I + X inside memory,         *)
(* LD_I_Vx X completes and writes memory[I + k] = Vk for k = 0..X and       *)
(* nothing else: I, the registers and every other byte are unchanged.       *)
(* LD_Vx_I X completes and loads registers 0..X from memory[I + k], and     *)
(* leaves the registers above X, I and memory unchanged.  A LD_Vx_I X that  *)
(* runs with the index and the memory the LD_I_Vx X left restores           *)
(* registers 0..X to the stored values.                                     *)

BlockInside == last.I + last.instr.vx < RAM_LEN

BlockRan(op) == last.opcode >= 0 /\ last.instr.op = op /\ BlockInside

RanOk == status \in {"running", "halted"} /\ epc.at = "fetch"

C22_StoreLoadInverse ==
    /\ BlockRan("LD_I_Vx") =>
        /\ RanOk
        /\ I = last.I /\ Vx = last.Vx
        /\ \A a \in DOMAIN ram \cup DOMAIN last.ram
                    \cup (last.I .. last.I + last.instr.vx) :
              ram_read(ram, a) =
                 IF a >= last.I /\ a <= last.I + last.instr.vx
                 THEN last.Vx[a - last.I]
                 ELSE ram_read(last.ram, a)
    /\ BlockRan("LD_Vx_I") =>
        /\ RanOk
        /\ I = last.I /\ ram = last.ram
        /\ \A k \in 0 .. 15 :
              Vx[k] = IF k <= last.instr.vx
                      THEN ram_read(last.ram, last.I + k)
                      ELSE last.Vx[k]
        /\ (/\ last.stored # None
            /\ unwrap(last.stored).vx = last.instr.vx
            /\ unwrap(last.stored).I = last.I
            /\ unwrap(last.stored).ram = last.ram)
           => \A k \in 0 .. last.instr.vx : Vx[k] = unwrap(last.stored).Vx[k]

\* all sixteen registers were stored at the end of memory, overwritten, and
\* loaded back
C22_Witness ==
    /\ BlockRan("LD_Vx_I")
    /\ last.instr.vx = 15
    /\ last.I = RAM_LEN - 16
    /\ last.stored # None
    /\ unwrap(last.stored).vx = 15
    /\ unwrap(last.stored).I = last.I
    /\ unwrap(last.stored).ram = last.ram
    /\ \A k \in 0 .. 15 : last.Vx[k] = 170 /\ Vx[k] = 255 - k
    /\ ram_read(ram, RAM_LEN - 1) = 240

----------------------------------------------------------------------------
(* Deep recursion: a CALL that calls itself, the same behind a load, and a  *)
(* subroutine that calls itself until V0 has counted round to zero, which   *)
(* is 256 calls deep, and then returns from every call.                     *)

op_SE(x, byte) == 12288 + 256 * x + byte

DeepCartridges ==
    { <<op_CALL(PROGRAM_START)>>,
      <<op_LD(1, 1), op_CALL(PROGRAM_START)>>,
      <<op_CALL(PROGRAM_START + 2), op_ADD(0, 1), op_SE(0, 0),
        op_CALL(PROGRAM_START + 2), op_RET>> }

InitDeep == \E words \in DeepCartridges : InitWith(words)

NextDeep == CycleWithin(MaxDeep)

SpecDeep == InitDeep /\ [][NextDeep]_vars

----------------------------------------------------------------------------
(* C23: in every reachable state the stack pointer SP equals the number of  *)
(* return addresses held in the call stack, and an instruction other than   *)
(* CALL and RET leaves SP and the call stack as they were.                  *)

C23_SpIsStackDepth ==
    /\ SP = Len(stack)
    /\ (last.opcode >= 0 /\ last.instr.op \notin {"CALL", "RET"})
          => (SP = last.SP /\ stack = last.stack)

====
